---- MODULE Spec2Model ----
(***************************************************************************)
(* Model of src/tank_monitor.py: the Modbus polling thread                 *)
(* (TankLevelGUI.modbus_polling / fetch_tank_levels), the Tk main-thread   *)
(* handlers that share state with it (update_gui, cleanup,                 *)
(* SettingsWindow.save) and the process-exit hook (atexit -> cleanup).     *)
(*                                                                         *)
(* Time is counted in tenths of a second, so that MIN_POLL_INTERVAL        *)
(* (0.1 s) is the integer 1.  Tank levels are counted in hundredths of a   *)
(* gallon, the precision of round(level, 2).                               *)
(***************************************************************************)
EXTENDS Integers, Sequences, FiniteSets, TLC

\* ------------------------------------------------------------ bounds
\* How many cycles the polling loop may begin in one run of the model.
MaxCycles == 2
\* How many events reach the main thread from outside in one run: close
\* requests, presses of Save, an interrupt, the loss of the window.
MaxEvents == 1

\* ------------------------------------------------- program constants
\* MIN_POLL_INTERVAL = 0.1 s, in tenths of a second.
MIN_POLL_INTERVAL == 1
\* MODBUS_TIMEOUT = 5 s, in tenths of a second.
MODBUS_TIMEOUT == 50
\* DEFAULT_POLL_INTERVAL = 60 s, in tenths of a second.
DEFAULT_POLL_INTERVAL == 600
\* self.stale_threshold = timedelta(seconds=10), in tenths of a second.
STALE_THRESHOLD == 100
\* The divisor of the level formula, the largest 16-bit register value.
REG_MAX == 65535
\* CAPACITIES[...]['gallons'] in hundredths of a gallon.
CAP_BIG == 58200000
CAP_TANK1 == 2000000
CAP_TANK2 == 1747868
\* self.last_update = None
None == -1
\* float("nan"): what float(self.interval_entry.get()) returns for the text
\* "nan".  Every comparison with it is false and time.sleep raises on it.
NaN == -2
\* The exit code "12345" that cleanup compares the operator's answer with.
EXIT_CODE == "12345"

\* The host of default_config and one other host the operator may enter.
DefaultHost == "192.168.1.235"
Hosts == {DefaultHost, "10.0.0.2"}
\* What the operator may type into the interval field: a text that float()
\* rejects (NotANumber), and the numbers 0 (below the floor), 0.1, 60 and nan.
NotANumber == -3
IntervalTexts == {NotANumber, 0, MIN_POLL_INTERVAL, DEFAULT_POLL_INTERVAL, NaN}
\* What the operator may answer to the exit-code prompt; "cancel" is the
\* None that askstring returns for Cancel or for a destroyed dialog.
Cancel == "cancel"
Tokens == {EXIT_CODE, "00000", Cancel}
\* The 'unit_id' of default_config.
DEFAULT_UNIT_ID == 1
\* A field config.json does not hold: the host, and (None) a number.
MissingHost == "none"
\* The three registers the device holds while cycle n polls it: the levels
\* move from one cycle to the next.
DeviceRegisters(n) == IF n % 2 = 1 THEN <<32768, 10000, 5000>> ELSE <<65535, 0, 1>>

VARIABLES
    \* ---- TankLevelGUI attributes
    running,        \* self.running
    cleaned_up,     \* self.cleaned_up
    last_update,    \* self.last_update (None or a time)
    tank_levels,    \* self.tank_levels[i]['level'], i = 1..6
    adam_ip,        \* self.adam_ip
    poll_interval,  \* self.poll_interval
    clientOk,       \* self.client is not None
    client_host,    \* self.client.host
    sock,           \* self.client.is_socket_open()
    sock_host,      \* the host the client's open socket is connected to
    unit_id,        \* self.unit_id
    \* ---- environment
    db,             \* rows of table tank_readings
    rootAlive,      \* the Tk root window exists
    guiQueue,       \* update_gui callbacks posted with root.after(0, ...)
    shown,          \* the levels the display shows, i = 1..6
    shownStale,     \* the display shows the gray (stale) fill
    now,            \* the clock
    proc,           \* main thread: "mainloop", "exiting" (atexit), "ended"
    hook,           \* the atexit hook: "armed", "prompting", "done"
    prompts,        \* cleanup invocations of close requests waiting in askstring
    config_file,    \* config.json on disk
    \* ---- the polling thread
    pc,             \* its position in modbus_polling / fetch_tank_levels
    wi,             \* the next tank_levels entry fetch_tank_levels assigns
    regs,           \* tags.registers of the read in progress
    start_time,     \* local start_time
    last_poll_time, \* local last_poll_time
    \* ---- the main thread inside update_gui
    uiPc,           \* "idle" or "gui"
    gi,             \* the next tank update_gui renders
    \* ---- history
    cycle,          \* number of cycles begun
    cyc,            \* what the current cycle has done so far
    pre,            \* levels, last_update, db and configuration when the cycle began
    levelCycle,     \* which cycle assigned tank_levels[i]
    shownCycle,     \* which cycle's value shown[i] is
    gate,           \* what cleanup has done so far
    events,         \* events that have reached the main thread from outside
    lastSave        \* the last press of Save: its entries and its outcome

appVars == <<running, cleaned_up, last_update, tank_levels, adam_ip,
             poll_interval, clientOk, client_host, sock, sock_host,
             unit_id>>
envVars == <<db, rootAlive, guiQueue, shown, shownStale, now, proc, hook, prompts,
             config_file>>
pollVars == <<pc, wi, regs, start_time, last_poll_time>>
uiVars == <<uiPc, gi>>
histVars == <<cycle, cyc, pre, levelCycle, shownCycle, gate, events, lastSave>>
vars == <<appVars, envVars, pollVars, uiVars, histVars>>

Tanks == 1..6

\* ------------------------------------------------ TelemetryTransformer
\* A capacity table in which Tank 2 has the capacity of Tank 1.
Capacity_Tank2AsTank1(r) ==
    CASE r = 1 -> CAP_BIG
      [] r = 2 -> CAP_TANK1
      [] r = 3 -> CAP_TANK1

\* CAPACITIES of the three measured tanks, by register index.
Capacity(r) ==
    CASE r = 1 -> CAP_BIG
      [] r = 2 -> CAP_TANK1
      [] r = 3 -> CAP_TANK2

\* (float(raw) / 65535) * capacity, exactly: <<whole, rem>> with
\* raw * cap = whole * 65535 + rem, computed without leaving 32 bits.
Unrounded(raw, cap) ==
    LET cq == cap \div REG_MAX
        cr == cap % REG_MAX
        a1 == raw \div 256
        a0 == raw % 256
        q1 == (256 * cr) \div REG_MAX
        r1 == (256 * cr) % REG_MAX
        t  == a1 * r1 + a0 * cr
    IN  <<raw * cq + a1 * q1 + t \div REG_MAX, t % REG_MAX>>

\* A conversion that cuts the level off after the second decimal.
Round2_Truncate(u) == u[1]

\* round(level, 2): to the nearest hundredth (a tie cannot occur, 65535 is odd).
Round2(u) == u[1] + (IF 2 * u[2] >= REG_MAX THEN 1 ELSE 0)

\* A mirroring table with Tank 4 copied from Tank 2 instead of Tank 1.
SourceReg_Tank4FromTank2(i) ==
    CASE i = 1 -> 1
      [] i = 2 -> 2
      [] i = 3 -> 3
      [] i = 4 -> 3
      [] i = 5 -> 3
      [] i = 6 -> 2

\* Which register each tank's level is computed from (the mirroring table).
SourceReg(i) ==
    CASE i = 1 -> 1
      [] i = 2 -> 2
      [] i = 3 -> 3
      [] i = 4 -> 3
      [] i = 5 -> 2
      [] i = 6 -> 2

\* The value assigned to self.tank_levels[i]['level'].
TankLevel(i, rs) == Round2(Unrounded(rs[SourceReg(i)], Capacity(SourceReg(i))))

\* A fetch that assigns each level as soon as it is computed: the Big Tank
\* level is assigned before the IndexError of the missing register.
AfterShortRead_Partial(levels, rs) ==
    IF Len(rs) >= 1
    THEN [levels EXCEPT ![1] = Round2(Unrounded(rs[1], CAP_BIG))]
    ELSE levels

\* tank_levels after tags.registers held fewer than three values: the
\* IndexError is raised while level1..level3 are computed, before the first
\* assignment, so nothing is assigned.
AfterShortRead(levels, rs) == levels

\* A row whose third value is computed with the capacity of Tank 1.
LogRow_Tank2WithTank1Capacity(t, rs) ==
    [timestamp |-> t \div 10,
     big_tank_gallons |-> Unrounded(rs[1], CAP_BIG),
     tank1_gallons |-> Unrounded(rs[2], CAP_TANK1),
     tank2_gallons |-> Unrounded(rs[3], CAP_TANK1)]

\* The row fetch_tank_levels inserts: the timestamp to the second and the
\* three unrounded levels.
LogRow(t, rs) ==
    [timestamp |-> t \div 10,
     big_tank_gallons |-> Unrounded(rs[1], CAP_BIG),
     tank1_gallons |-> Unrounded(rs[2], CAP_TANK1),
     tank2_gallons |-> Unrounded(rs[3], CAP_TANK2)]

\* --------------------------------------------------------- float helpers
\* a < b on floats, where either may be nan.
FloatLess(a, b) == a # NaN /\ b # NaN /\ a < b
\* a > b on floats, where either may be nan.
FloatGreater(a, b) == a # NaN /\ b # NaN /\ a > b

\* ------------------------------------------------------- configuration
\* default_config of load_config.
default_config ==
    [adam_ip |-> DefaultHost, poll_interval |-> DEFAULT_POLL_INTERVAL,
     unit_id |-> DEFAULT_UNIT_ID]

\* config.json holding the record c; writable: open(config_path, 'w')
\* succeeds.
RecordFile(c, writable) ==
    [kind |-> "record", writable |-> writable, adam_ip |-> c.adam_ip,
     poll_interval |-> c.poll_interval, unit_id |-> c.unit_id]

\* config.json in a state in which it holds no record: "absent",
\* "unreadable" (open(config_path, 'r') raises) or "invalid" (json.load
\* raises); writable: the file can be created or written.
NoRecordFile(kind, writable) ==
    [kind |-> kind, writable |-> writable, adam_ip |-> MissingHost,
     poll_interval |-> None, unit_id |-> None]

\* The record json.load returns for a file that holds one.
Fields(file) ==
    [adam_ip |-> file.adam_ip, poll_interval |-> file.poll_interval,
     unit_id |-> file.unit_id]

\* The states of config.json that startup may find (a stored poll interval
\* is absent, 5 s or 60 s).
ConfigFiles ==
    {NoRecordFile(k, w) : k \in {"absent", "unreadable", "invalid"}, w \in BOOLEAN}
    \cup {RecordFile([adam_ip |-> h, poll_interval |-> p, unit_id |-> u], w) :
            h \in Hosts \cup {MissingHost},
            p \in {None, 50, DEFAULT_POLL_INTERVAL},
            u \in {None, DEFAULT_UNIT_ID},
            w \in BOOLEAN}

\* load_config: [config |-> the record it returns, file |-> config.json
\* afterwards].  An absent file is created with the defaults (or the defaults
\* are returned when it cannot be); a file that cannot be read or parsed gives
\* the defaults; a record whose poll_interval is not 60 has it set to 60 and
\* is written back when the file can be written; when the record has no
\* poll_interval, the log call of the correction raises KeyError on
\* config['poll_interval'] and the defaults are returned.
load_config(file) ==
    IF file.kind = "absent" /\ ~file.writable
    THEN [config |-> default_config, file |-> file]
    ELSE LET f == IF file.kind = "absent" THEN RecordFile(default_config, TRUE) ELSE file
         IN  IF f.kind # "record"
             THEN [config |-> default_config, file |-> f]
             ELSE IF f.poll_interval = DEFAULT_POLL_INTERVAL
             THEN [config |-> Fields(f), file |-> f]
             ELSE IF f.poll_interval = None
             THEN [config |-> default_config, file |-> f]
             ELSE [config |-> [Fields(f) EXCEPT !.poll_interval = DEFAULT_POLL_INTERVAL],
                   file |-> IF f.writable
                            THEN [f EXCEPT !.poll_interval = DEFAULT_POLL_INTERVAL]
                            ELSE f]

\* Whether __init__ raises KeyError on config['adam_ip'] or config['unit_id']:
\* the exception leaves __init__ and the main block re-raises it.
StartupFails(config) == config.adam_ip = MissingHost \/ config.unit_id = None

\* max(float(config['poll_interval']), MIN_POLL_INTERVAL)
StartupInterval(config) ==
    IF config.poll_interval < MIN_POLL_INTERVAL
    THEN MIN_POLL_INTERVAL
    ELSE config.poll_interval

\* ------------------------------------------------------------- history
NoCycle ==
    [outcome |-> "none", pings |-> 0, connects |-> 0, reads |-> 0,
     appends |-> 0, posts |-> 0, slept |-> None, sleepCfg |-> None,
     overrun |-> FALSE, pingHost |-> "none"]

Snapshot ==
    [levels |-> tank_levels, last_update |-> last_update, db |-> db,
     adam_ip |-> adam_ip, poll_interval |-> poll_interval]

NoSave == [n |-> 0, ip |-> "none", text |-> NotANumber, error |-> FALSE,
           raised |-> FALSE]

NoGate == [calls |-> 0, asked |-> 0, teardowns |-> 0, closes |-> 0, destroys |-> 0,
           last |-> "none", token |-> "none"]

\* An event loop is serving Tk callbacks: root.mainloop(), or the local loop
\* of an askstring dialog.
LoopServing == rootAlive /\ (proc = "mainloop" \/ prompts > 0 \/ hook = "prompting")

\* -------------------------------------------------------------- Init
\* The state when TankLevelGUI.__init__ has returned and the polling thread
\* (if the client was constructed) has run up to its first loop test;
\* config.json is the file load_config creates.
Init ==
    /\ running = TRUE
    /\ cleaned_up = FALSE
    /\ last_update = None
    /\ tank_levels = [i \in Tanks |-> 0]
    /\ adam_ip = DefaultHost
    /\ poll_interval = DEFAULT_POLL_INTERVAL
    /\ clientOk \in BOOLEAN
    /\ client_host = adam_ip
    /\ sock = FALSE
    /\ sock_host = MissingHost
    /\ unit_id = DEFAULT_UNIT_ID
    /\ db = <<>>
    /\ rootAlive = TRUE
    /\ guiQueue = 0
    /\ shown = [i \in Tanks |-> 0]
    /\ shownStale = FALSE
    /\ now = 0
    /\ proc = "mainloop"
    /\ hook = "armed"
    /\ prompts = 0
    /\ config_file = RecordFile(default_config, TRUE)
    /\ pc = IF clientOk THEN "top" ELSE "nothread"
    /\ wi = 1
    /\ regs = <<>>
    /\ start_time = 0
    /\ last_poll_time = 0
    /\ uiPc = "idle"
    /\ gi = 1
    /\ cycle = 0
    /\ cyc = NoCycle
    /\ pre = Snapshot
    /\ levelCycle = [i \in Tanks |-> 0]
    /\ shownCycle = [i \in Tanks |-> 0]
    /\ gate = NoGate
    /\ events = 0
    /\ lastSave = NoSave

\* ------------------------------------------------- the polling thread
\* A loop test that is always true (while True).
LoopTest_Always == TRUE

\* The loop test of modbus_polling: while self.running.
LoopTest == running

\* The loop test fails and the thread ends.
LoopExit ==
    /\ pc = "top"
    /\ ~LoopTest
    /\ pc' = "exited"
    /\ UNCHANGED <<appVars, envVars, wi, regs, start_time, last_poll_time, uiVars, histVars>>

\* The loop test holds: start_time is taken and, when the last
\* poll ended less than MIN_POLL_INTERVAL ago, the thread sleeps the rest.
CycleBegin ==
    /\ pc = "top"
    /\ LoopTest
    /\ cycle < MaxCycles
    /\ LET elapsed == now - last_poll_time
       IN  now' = IF elapsed < MIN_POLL_INTERVAL
                  THEN now + (MIN_POLL_INTERVAL - elapsed)
                  ELSE now
    /\ start_time' = now
    /\ pc' = "ping"
    /\ cycle' = cycle + 1
    /\ cyc' = NoCycle
    /\ pre' = Snapshot
    /\ UNCHANGED <<appVars, db, rootAlive, guiQueue, shown, shownStale, proc, hook,
                   prompts, wi, regs, last_poll_time, uiVars, levelCycle, shownCycle,
                   gate, events, lastSave, config_file>>

\* ping_device(self.adam_ip): True or False.
Ping ==
    /\ pc = "ping"
    /\ \E r \in {"ok", "fail"} :
        /\ pc' = IF r = "ok" THEN "fetch" ELSE "sleep_unreachable"
        /\ cyc' = [cyc EXCEPT !.pings = @ + 1,
                              !.pingHost = adam_ip,
                              !.outcome = IF r = "ok" THEN @ ELSE "unreachable"]
    /\ UNCHANGED <<appVars, envVars, wi, regs, start_time, last_poll_time, uiVars,
                   cycle, pre, levelCycle, shownCycle, gate, events, lastSave>>

\* A loop that shortens the end-of-cycle sleep by the time the cycle took.
SleepDuration_CatchUp(site) ==
    IF poll_interval = NaN \/ site # "cycle"
    THEN poll_interval
    ELSE IF now - start_time >= poll_interval
    THEN 0
    ELSE poll_interval - (now - start_time)

\* A loop that retries an unreachable device after the minimum interval.
SleepDuration_ShortRetry(site) ==
    IF site = "unreachable" THEN MIN_POLL_INTERVAL ELSE poll_interval

\* The argument of time.sleep at the three places the loop sleeps.
SleepDuration(site) == poll_interval

\* time.sleep(d): raises ValueError on nan, else returns after d.
Sleep(site, after, onRaise) ==
    LET d == SleepDuration(site)
    IN  /\ IF d = NaN
           THEN /\ pc' = onRaise
                /\ UNCHANGED <<now, cyc>>
           ELSE /\ pc' = after
                /\ now' = now + d
                /\ cyc' = [cyc EXCEPT !.slept = d, !.sleepCfg = poll_interval]
        /\ UNCHANGED <<appVars, db, rootAlive, guiQueue, shown, shownStale, proc, hook,
                       prompts, wi, regs, start_time, last_poll_time, uiVars, cycle,
                       pre, levelCycle, shownCycle, gate, events, lastSave, config_file>>

\* The device was unreachable: time.sleep(self.poll_interval); continue.
SleepUnreachable == pc = "sleep_unreachable" /\ Sleep("unreachable", "top", "except")

\* The end of a cycle: time.sleep(self.poll_interval).
SleepCycle == pc = "sleep" /\ Sleep("cycle", "top", "except")

\* except Exception: time.sleep(self.poll_interval).  An exception raised
\* here is raised outside the try and ends the thread.
SleepExcept == pc = "except" /\ Sleep("except", "top", "crashed")

\* fetch_tank_levels up to the read: the socket is open, or connect() is
\* tried; a failed connect returns.
FetchConnect ==
    /\ pc = "fetch"
    /\ IF sock
       THEN /\ pc' = "read"
            /\ UNCHANGED <<sock, sock_host, cyc>>
       ELSE \E ok \in BOOLEAN :
            /\ sock' = ok
            /\ sock_host' = IF ok THEN client_host ELSE MissingHost
            /\ pc' = IF ok THEN "read" ELSE "post"
            /\ cyc' = [cyc EXCEPT !.connects = @ + 1,
                                  !.outcome = IF ok THEN @ ELSE "connect_failed"]
    /\ UNCHANGED <<running, cleaned_up, last_update, tank_levels, adam_ip, poll_interval,
                   clientOk, unit_id, client_host, envVars, wi, regs, start_time, last_poll_time,
                   uiVars, cycle, pre, levelCycle, shownCycle, gate, events, lastSave>>

\* The host a register read is exchanged with: the one the open socket is
\* connected to; with the socket closed the client library connects to
\* self.client.host before it sends the request.
ReadPeer == IF sock THEN sock_host ELSE client_host

\* read_holding_registers(0, 3) returns three registers.  (When the socket
\* was closed after the test above, the client library connects by itself
\* before it sends the request, so a response leaves the socket open.)
ReadOk ==
    /\ pc = "read"
    /\ regs' = DeviceRegisters(cycle)
    /\ sock' = TRUE
    /\ sock_host' = ReadPeer
    /\ pc' = "write"
    /\ wi' = 1
    /\ cyc' = [cyc EXCEPT !.reads = @ + 1]
    /\ UNCHANGED <<running, cleaned_up, last_update, tank_levels, adam_ip, poll_interval,
                   clientOk, unit_id, client_host, envVars, start_time, last_poll_time, uiVars,
                   cycle, pre, levelCycle, shownCycle, gate, events, lastSave>>

\* A fetch that closes the client when the response is an error response.
SocketAfterError_Closed == FALSE

\* The socket after "if tags.isError(): return": the response came over an
\* open socket and fetch_tank_levels returns without closing the client.
SocketAfterError == TRUE

\* The response is an error response: tags.isError(), return.
ReadError ==
    /\ pc = "read"
    /\ sock' = SocketAfterError
    /\ sock_host' = IF SocketAfterError THEN ReadPeer ELSE MissingHost
    /\ pc' = "post"
    /\ cyc' = [cyc EXCEPT !.reads = @ + 1, !.outcome = "read_error"]
    /\ UNCHANGED <<running, cleaned_up, last_update, tank_levels, adam_ip, poll_interval,
                   clientOk, unit_id, client_host, envVars, wi, regs, start_time, last_poll_time,
                   uiVars, cycle, pre, levelCycle, shownCycle, gate, events, lastSave>>

\* The read raises after MODBUS_TIMEOUT (ConnectionException,
\* ModbusException or another exception).  fetch_tank_levels catches it and
\* returns; it does not close the client.
ReadException ==
    /\ pc = "read"
    /\ now' = now + MODBUS_TIMEOUT
    /\ pc' = "post"
    /\ cyc' = [cyc EXCEPT !.reads = @ + 1, !.outcome = "read_exception"]
    /\ UNCHANGED <<appVars, db, rootAlive, guiQueue, shown, shownStale, proc, hook,
                   prompts, wi, regs, start_time, last_poll_time, uiVars, cycle, pre,
                   levelCycle, shownCycle, gate, events, lastSave, config_file>>

\* The response holds fewer than three registers: computing level1..level3
\* raises IndexError, which fetch_tank_levels catches.
ReadShort ==
    /\ pc = "read"
    /\ \E k \in 0..2 :
        tank_levels' = AfterShortRead(tank_levels, SubSeq(DeviceRegisters(cycle), 1, k))
    /\ sock' = TRUE
    /\ sock_host' = ReadPeer
    /\ pc' = "post"
    /\ cyc' = [cyc EXCEPT !.reads = @ + 1, !.outcome = "short_read"]
    /\ UNCHANGED <<running, cleaned_up, last_update, adam_ip, poll_interval, clientOk, unit_id,
                   client_host, envVars, wi, regs, start_time, last_poll_time, uiVars,
                   cycle, pre, levelCycle, shownCycle, gate, events, lastSave>>

\* The six assignments self.tank_levels[i]['level'] = round(..., 2).
StoreLevels(rs) == [i \in Tanks |-> TankLevel(i, rs)]

\* An INSERT that replaces the stored row instead of adding one.
Inserted_Replace(rows, row, stored) == IF stored THEN <<row>> ELSE rows

\* The rows of tank_readings after the INSERT of fetch_tank_levels, which
\* runs over a connection of its own; sqlite3.Error is caught and the row
\* dropped.
Inserted(rows, row, stored) == IF stored THEN Append(rows, row) ELSE rows

\* A fetch in which a failed INSERT reaches the handler of the polling loop.
AfterInsert_Propagates(stored) == IF stored THEN "post" ELSE "except"

\* Where the polling thread goes on after the INSERT: sqlite3.Error is caught
\* inside fetch_tank_levels, which returns normally either way.
AfterInsert(stored) == "post"

\* fetch_tank_levels after a read of three registers, as one step: the six
\* assignments, self.last_update = datetime.now(), the INSERT.
Store ==
    /\ pc = "write"
    /\ wi = 1
    /\ tank_levels' = StoreLevels(regs)
    /\ levelCycle' = [i \in Tanks |-> cycle]
    /\ last_update' = now
    /\ \E stored \in BOOLEAN :
        /\ db' = Inserted(db, LogRow(now, regs), stored)
        /\ cyc' = [cyc EXCEPT !.outcome = "ok", !.appends = IF stored THEN 1 ELSE 0]
        /\ pc' = AfterInsert(stored)
    /\ regs' = <<>>
    /\ UNCHANGED <<running, cleaned_up, adam_ip, poll_interval, clientOk, unit_id, client_host,
                   sock, sock_host, rootAlive, guiQueue, shown, shownStale, now, proc,
                   hook,
                   prompts, wi, start_time, last_poll_time, uiVars, cycle, pre,
                   shownCycle, gate, events, lastSave, config_file>>

\* The same in the steps a concurrent reader can see: one of the six
\* assignments self.tank_levels[i]['level'] = round(..., 2).
WriteLevel ==
    /\ pc = "write"
    /\ tank_levels' = [tank_levels EXCEPT ![wi] = TankLevel(wi, regs)]
    /\ levelCycle' = [levelCycle EXCEPT ![wi] = cycle]
    /\ IF wi = 6
       THEN pc' = "commit" /\ wi' = 1
       ELSE pc' = pc /\ wi' = wi + 1
    /\ UNCHANGED <<running, cleaned_up, last_update, adam_ip, poll_interval, clientOk, unit_id,
                   client_host, sock, sock_host, envVars, regs, start_time, last_poll_time, uiVars,
                   cycle, cyc, pre, shownCycle, gate, events, lastSave>>

\* After the sixth assignment: self.last_update = datetime.now() and the
\* INSERT.
Commit ==
    /\ pc = "commit"
    /\ last_update' = now
    /\ \E stored \in BOOLEAN :
        /\ db' = Inserted(db, LogRow(now, regs), stored)
        /\ cyc' = [cyc EXCEPT !.outcome = "ok", !.appends = IF stored THEN 1 ELSE 0]
        /\ pc' = AfterInsert(stored)
    /\ regs' = <<>>
    /\ UNCHANGED <<running, cleaned_up, tank_levels, adam_ip, poll_interval, clientOk, unit_id,
                   client_host, sock, sock_host, rootAlive, guiQueue, shown, shownStale, now, proc,
                   hook, prompts, wi, start_time, last_poll_time, uiVars, cycle, pre,
                   levelCycle, shownCycle, gate, events, lastSave, config_file>>

\* A loop that posts update_gui only for a cycle whose read succeeded.
PostsUpdate_OnlyOnSuccess == running /\ cyc.outcome = "ok"

\* Whether modbus_polling posts update_gui after fetch_tank_levels returned.
PostsUpdate == running

\* After fetch_tank_levels returned: the test "if self.running:".  With the
\* flag clear the loop goes on to the overrun warning and last_poll_time.
PostTest ==
    /\ pc = "post"
    /\ IF PostsUpdate
       THEN /\ pc' = "after"
            /\ UNCHANGED <<cyc, last_poll_time>>
       ELSE /\ cyc' = [cyc EXCEPT !.overrun = FloatGreater(now - start_time, poll_interval)]
            /\ last_poll_time' = now
            /\ pc' = "sleep"
    /\ UNCHANGED <<appVars, envVars, wi, regs, start_time, uiVars, cycle, pre,
                   levelCycle, shownCycle, gate, events, lastSave>>

\* self.root.after(0, self.update_gui), called from the polling thread: it
\* raises when no event loop serves the window (the window was destroyed, or
\* the main thread has left its loop), which the loop's except catches; else
\* the callback is queued, then the overrun warning and last_poll_time.
Post ==
    /\ pc = "after"
    /\ IF ~LoopServing
       THEN /\ pc' = "except"
            /\ UNCHANGED <<guiQueue, cyc, last_poll_time>>
       ELSE /\ guiQueue' = guiQueue + 1
            /\ cyc' = [cyc EXCEPT !.posts = @ + 1,
                                  !.overrun = FloatGreater(now - start_time, poll_interval)]
            /\ last_poll_time' = now
            /\ pc' = "sleep"
    /\ UNCHANGED <<appVars, db, rootAlive, shown, shownStale, now, proc, hook, prompts,
                   wi, regs, start_time, uiVars, cycle, pre, levelCycle, shownCycle,
                   gate, events, lastSave, config_file>>

PollStep ==
    \/ LoopExit
    \/ CycleBegin
    \/ Ping
    \/ SleepUnreachable
    \/ FetchConnect
    \/ ReadOk
    \/ ReadError
    \/ ReadException
    \/ ReadShort
    \/ Store
    \/ PostTest
    \/ Post
    \/ SleepCycle
    \/ SleepExcept

\* ------------------------------------------------- the main thread
\* A staleness test that compares the age with the poll interval.
IsStale_ByInterval(lu, t) == lu # None /\ FloatGreater(t - lu, poll_interval)

\* The staleness test of update_gui.
IsStale(lu, t) == lu # None /\ t - lu > STALE_THRESHOLD

\* update_gui, as one step: the fill colour from last_update, then the six
\* tanks rendered from self.tank_levels.
UpdateGui ==
    /\ uiPc = "idle"
    /\ LoopServing
    /\ guiQueue > 0
    /\ guiQueue' = guiQueue - 1
    /\ shownStale' = IsStale(last_update, now)
    /\ shown' = tank_levels
    /\ shownCycle' = levelCycle
    /\ UNCHANGED <<appVars, db, rootAlive, now, proc, hook, prompts, pollVars, uiVars,
                   cycle, cyc, pre, levelCycle, gate, events, lastSave, config_file>>

\* The same in the steps a concurrent writer can interleave with: update_gui
\* is called and decides the fill colour from last_update.
GuiBegin ==
    /\ uiPc = "idle"
    /\ LoopServing
    /\ guiQueue > 0
    /\ guiQueue' = guiQueue - 1
    /\ shownStale' = IsStale(last_update, now)
    /\ uiPc' = "gui"
    /\ gi' = 1
    /\ UNCHANGED <<appVars, db, rootAlive, shown, now, proc, hook, prompts, pollVars,
                   histVars, config_file>>

\* update_gui renders one tank from self.tank_levels.
GuiRender ==
    /\ uiPc = "gui"
    /\ shown' = [shown EXCEPT ![gi] = tank_levels[gi]]
    /\ shownCycle' = [shownCycle EXCEPT ![gi] = levelCycle[gi]]
    /\ IF gi = 6
       THEN uiPc' = "idle" /\ gi' = 1
       ELSE uiPc' = uiPc /\ gi' = gi + 1
    /\ UNCHANGED <<appVars, db, rootAlive, guiQueue, shownStale, now, proc, hook,
                   prompts, pollVars, cycle, cyc, pre, levelCycle, gate, events, lastSave, config_file>>

\* A cleanup without its first test.
CleanupReturns_Never == FALSE

\* The first test of cleanup: self.cleaned_up is set and cleanup returns.
CleanupReturns == cleaned_up

\* A cleanup that asks for the exit code whether or not the window exists.
WindowExists_Always == TRUE

\* self.root.winfo_exists() does not raise TclError: the window exists and
\* cleanup asks for the exit code.
WindowExists == rootAlive

\* The part of cleanup after "Proceed with cleanup", entered with history g:
\* the two flags, the client is closed if its socket is open, the root window
\* is destroyed (with its pending callbacks).  A TclError of after_cancel or
\* destroy, raised when the window is gone already, is caught.
Teardown(g) ==
    /\ cleaned_up' = TRUE
    /\ running' = FALSE
    /\ sock' = IF clientOk /\ sock THEN FALSE ELSE sock
    /\ sock_host' = IF clientOk /\ sock THEN MissingHost ELSE sock_host
    /\ rootAlive' = FALSE
    /\ guiQueue' = 0
    /\ gate' = [g EXCEPT !.teardowns = @ + 1,
                         !.closes = IF clientOk /\ sock THEN @ + 1 ELSE @,
                         !.destroys = IF rootAlive THEN @ + 1 ELSE @,
                         !.last = "teardown"]

\* cleanup returns without having done anything.
NoTeardown(g, why) ==
    /\ gate' = [g EXCEPT !.last = why]
    /\ UNCHANGED <<running, cleaned_up, sock, sock_host, rootAlive, guiQueue>>

\* cleanup from its call to its prompt: called after Cleaned it returns; for
\* a window that exists it asks for the exit code (asks: the caller waits in
\* askstring); for a window that is gone it proceeds.
CleanupEnter(asks) ==
    LET g == [gate EXCEPT !.calls = @ + 1]
    IN  IF CleanupReturns
        THEN asks = FALSE /\ NoTeardown(g, "returned")
        ELSE IF WindowExists
        THEN asks = TRUE /\ NoTeardown([g EXCEPT !.asked = @ + 1], "asked")
        ELSE asks = FALSE /\ Teardown(g)

\* A cleanup that proceeds on any answer but Cancel.
CleanupAnswered_AnyToken(token) ==
    LET g == [gate EXCEPT !.token = token]
    IN  IF token = Cancel
        THEN NoTeardown(g, "aborted")
        ELSE Teardown(g)

\* cleanup after askstring returned token: only the exit code proceeds.
CleanupAnswered(token) ==
    LET g == [gate EXCEPT !.token = token]
    IN  IF token # EXIT_CODE
        THEN NoTeardown(g, "aborted")
        ELSE Teardown(g)

\* A dialog that still returns what was typed after its window was destroyed.
Answers_KeptAfterDestroy == Tokens

\* The answers askstring can return: any token while the window exists, None
\* once the window (and the dialog with it) is destroyed.
Answers == IF rootAlive THEN Tokens ELSE {Cancel}

\* WM_DELETE_WINDOW: the operator asks to close the window; cleanup runs in
\* the main thread up to its prompt.
CloseRequest ==
    /\ uiPc = "idle"
    /\ LoopServing
    /\ events < MaxEvents
    /\ events' = events + 1
    /\ \E asks \in BOOLEAN :
        /\ CleanupEnter(asks)
        /\ prompts' = IF asks THEN prompts + 1 ELSE prompts
    /\ UNCHANGED <<last_update, tank_levels, adam_ip, poll_interval, clientOk, unit_id,
                   client_host, db, shown, shownStale, now, proc, hook, pollVars,
                   uiVars, cycle, cyc, pre, levelCycle, shownCycle, lastSave, config_file>>

\* The prompt of a close request is answered (the innermost dialog first).
\* After a teardown the main loop returns and the process starts to exit.
CloseAnswer ==
    /\ uiPc = "idle"
    /\ prompts > 0
    /\ prompts' = prompts - 1
    /\ \E token \in Answers :
        /\ CleanupAnswered(token)
        /\ proc' = IF token = EXIT_CODE /\ proc = "mainloop" THEN "exiting" ELSE proc
    /\ UNCHANGED <<last_update, tank_levels, adam_ip, poll_interval, clientOk, unit_id,
                   client_host, db, shown, shownStale, now, hook, pollVars, uiVars,
                   cycle, cyc, pre, levelCycle, shownCycle, events, lastSave, config_file>>

\* The interpreter exits and runs the atexit hook: cleanup.
ExitHook ==
    /\ proc = "exiting"
    /\ hook = "armed"
    /\ prompts = 0
    /\ uiPc = "idle"
    /\ \E asks \in BOOLEAN :
        /\ CleanupEnter(asks)
        /\ hook' = IF asks THEN "prompting" ELSE "done"
    /\ UNCHANGED <<last_update, tank_levels, adam_ip, poll_interval, clientOk, unit_id,
                   client_host, db, shown, shownStale, now, proc, prompts, pollVars,
                   uiVars, cycle, cyc, pre, levelCycle, shownCycle, events, lastSave, config_file>>

\* The prompt of the atexit hook's cleanup is answered.
HookAnswer ==
    /\ hook = "prompting"
    /\ prompts = 0
    /\ uiPc = "idle"
    /\ hook' = "done"
    /\ \E token \in Answers : CleanupAnswered(token)
    /\ UNCHANGED <<last_update, tank_levels, adam_ip, poll_interval, clientOk, unit_id,
                   client_host, db, shown, shownStale, now, proc, prompts, pollVars,
                   uiVars, cycle, cyc, pre, levelCycle, shownCycle, events, lastSave, config_file>>

\* The atexit hook has returned: the process ends and takes the daemon
\* polling thread with it.
ProcessEnd ==
    /\ proc = "exiting"
    /\ hook = "done"
    /\ proc' = "ended"
    /\ pc' = IF pc \in {"exited", "crashed", "nothread"} THEN pc ELSE "killed"
    /\ UNCHANGED <<appVars, db, rootAlive, guiQueue, shown, shownStale, now, hook,
                   prompts, wi, regs, start_time, last_poll_time, uiVars, histVars, config_file>>

\* The main thread leaves root.mainloop() unexpectedly (an interrupt) while
\* the window exists; the interpreter starts to exit.
Interrupt ==
    /\ proc = "mainloop"
    /\ rootAlive
    /\ prompts = 0
    /\ uiPc = "idle"
    /\ events < MaxEvents
    /\ events' = events + 1
    /\ proc' = "exiting"
    /\ UNCHANGED <<appVars, db, rootAlive, guiQueue, shown, shownStale, now, hook,
                   prompts, pollVars, uiVars, cycle, cyc, pre, levelCycle, shownCycle,
                   gate, lastSave, config_file>>

\* The window is destroyed from outside the program (the case cleanup's
\* except tk.TclError branch is written for); the main loop returns.
WindowLost ==
    /\ rootAlive
    /\ uiPc = "idle"
    /\ proc \in {"mainloop", "exiting"}
    /\ rootAlive' = FALSE
    /\ guiQueue' = 0
    /\ proc' = "exiting"
    /\ events < MaxEvents
    /\ events' = events + 1
    /\ UNCHANGED <<appVars, db, shown, shownStale, now, hook, prompts, pollVars,
                   uiVars, cycle, cyc, pre, levelCycle, shownCycle, gate, lastSave, config_file>>

\* Whether SettingsWindow.save accepts the interval text: float() parses it
\* and the value is not below MIN_POLL_INTERVAL.
SaveAccepts(text) == text # NotANumber /\ ~FloatLess(text, MIN_POLL_INTERVAL)

\* Whether SettingsWindow.save ends in an exception it does not handle:
\* self.app.client.host = new_ip raises AttributeError when the client is
\* None; the handler is for ValueError only, so the log line and
\* self.window.destroy() are not reached.
SaveRaises(text) == SaveAccepts(text) /\ ~clientOk

\* A save that assigns the host before it has validated the interval.
SavedConfig_HostFirst(cfg, new_ip, text) ==
    IF SaveAccepts(text)
    THEN [adam_ip |-> new_ip, poll_interval |-> text,
          client_host |-> IF clientOk THEN new_ip ELSE cfg.client_host]
    ELSE [cfg EXCEPT !.adam_ip = new_ip]

\* The configuration after SettingsWindow.save with the entries new_ip and
\* text: a ValueError of float() or of the floor test is raised before the
\* first assignment; else adam_ip, poll_interval and client.host are assigned
\* (the last raises AttributeError when the client is None).
SavedConfig(cfg, new_ip, text) ==
    IF SaveAccepts(text)
    THEN [adam_ip |-> new_ip, poll_interval |-> text,
          client_host |-> IF clientOk THEN new_ip ELSE cfg.client_host]
    ELSE cfg

\* SettingsWindow.save with the entries new_ip and text; a ValueError is
\* reported with messagebox.showerror.
Save ==
    /\ uiPc = "idle"
    /\ LoopServing
    /\ events < MaxEvents
    /\ events' = events + 1
    /\ \E new_ip \in Hosts, text \in IntervalTexts :
        LET cfg == [adam_ip |-> adam_ip, poll_interval |-> poll_interval,
                    client_host |-> client_host]
            new == SavedConfig(cfg, new_ip, text)
        IN  /\ adam_ip' = new.adam_ip
            /\ poll_interval' = new.poll_interval
            /\ client_host' = new.client_host
            /\ lastSave' = [n |-> lastSave.n + 1, ip |-> new_ip, text |-> text,
                            error |-> ~SaveAccepts(text),
                            raised |-> SaveRaises(text)]
    /\ UNCHANGED <<running, cleaned_up, last_update, tank_levels, clientOk, unit_id, sock, sock_host,
                   envVars, pollVars, uiVars, cycle, cyc, pre, levelCycle, shownCycle,
                   gate>>

MainStep ==
    \/ UpdateGui
    \/ CloseRequest
    \/ CloseAnswer
    \/ ExitHook
    \/ HookAnswer
    \/ ProcessEnd
    \/ Interrupt
    \/ WindowLost
    \/ Save

Next == PollStep \/ MainStep

Spec == Init /\ [][Next]_vars

\* The polling thread and update_gui in the steps in which they access
\* self.tank_levels, for the interleavings of the two threads.
RaceNext ==
    \/ CycleBegin
    \/ Ping
    \/ SleepUnreachable
    \/ FetchConnect
    \/ ReadOk
    \/ ReadError
    \/ WriteLevel
    \/ Commit
    \/ PostTest
    \/ Post
    \/ SleepCycle
    \/ GuiBegin
    \/ GuiRender

RaceSpec == Init /\ [][RaceNext]_vars

\* SettingsWindow.save pressed with the host entry left as it is and an
\* interval that is accepted: the press that changes what the loop sleeps.
SaveInterval ==
    /\ Save
    /\ lastSave'.ip = adam_ip
    /\ SaveAccepts(lastSave'.text)

\* The polling thread together with the main-thread steps that write what its
\* loop reads (running, poll_interval, the window, the event loop); update_gui
\* is left out, it only renders, and so are the presses of Save that are
\* rejected or change the host.
StopNext ==
    \/ PollStep
    \/ CloseRequest
    \/ CloseAnswer
    \/ ExitHook
    \/ HookAnswer
    \/ ProcessEnd
    \/ Interrupt
    \/ WindowLost
    \/ SaveInterval

\* The polling thread is scheduled again and again, and each of its blocking
\* calls returns or raises (the ping, the connect and the read have a
\* timeout, the sleep is finite): a step it can take is taken.
FairSpec == Init /\ [][StopNext]_vars /\ WF_vars(PollStep)

\* The rows of tank_readings after the startup code of __init__: the file is
\* deleted when it exists (removed is false when os.remove raises, which is
\* caught), then setup_database creates the table if it does not exist.
DbAfterStartup(rows, removed) == IF removed THEN <<>> ELSE rows

\* Whether __init__ goes on after setup_database: a sqlite3.Error of it is
\* logged and raised again ("to halt execution"), __init__ does not catch it,
\* and the main block re-raises it.
SetupDatabaseHalts(dbError) == dbError

\* The program is started: load_config and TankLevelGUI.__init__ on the
\* files that are there (those an earlier run left, when there was one).  A
\* KeyError of __init__ ends the process before the database file is
\* touched, a sqlite3.Error of setup_database after the file was deleted;
\* both before the hook is registered and the thread started.  Else the
\* state is that of Init but for the configuration, the database and the
\* clock; pre keeps what was there before.
Startup ==
    /\ proc \in {"ended", "off"}
    /\ pre' = Snapshot
    /\ \E dbError \in BOOLEAN :
       LET ld == load_config(config_file)
       IN  /\ config_file' = ld.file
           /\ IF StartupFails(ld.config)
              THEN /\ proc' = "failed"
                   /\ cyc' = [NoCycle EXCEPT !.outcome = "startup"]
                   /\ UNCHANGED <<appVars, db, rootAlive, guiQueue, shown, shownStale,
                                  hook, prompts, pollVars, levelCycle, shownCycle, gate,
                                  lastSave>>
              ELSE IF SetupDatabaseHalts(dbError)
              THEN /\ proc' = "failed"
                   /\ cyc' = [NoCycle EXCEPT !.outcome = "startup_db_error"]
                   /\ \E removed \in BOOLEAN : db' = DbAfterStartup(db, removed)
                   /\ UNCHANGED <<appVars, rootAlive, guiQueue, shown, shownStale,
                                  hook, prompts, pollVars, levelCycle, shownCycle, gate,
                                  lastSave>>
              ELSE /\ proc' = "mainloop"
                   /\ cyc' = [NoCycle EXCEPT !.outcome = "startup"]
                   /\ \E removed \in BOOLEAN : db' = DbAfterStartup(db, removed)
                   /\ running' = TRUE
                   /\ cleaned_up' = FALSE
                   /\ last_update' = None
                   /\ tank_levels' = [i \in Tanks |-> 0]
                   /\ adam_ip' = ld.config.adam_ip
                   /\ poll_interval' = StartupInterval(ld.config)
                   /\ unit_id' = ld.config.unit_id
                   /\ clientOk' \in BOOLEAN
                   /\ client_host' = ld.config.adam_ip
                   /\ sock' = FALSE
                   /\ sock_host' = MissingHost
                   /\ rootAlive' = TRUE
                   /\ guiQueue' = 0
                   /\ shown' = [i \in Tanks |-> 0]
                   /\ shownStale' = FALSE
                   /\ hook' = "armed"
                   /\ prompts' = 0
                   /\ pc' = IF clientOk' THEN "top" ELSE "nothread"
                   /\ wi' = 1
                   /\ regs' = <<>>
                   /\ start_time' = now
                   /\ last_poll_time' = now
                   /\ levelCycle' = [i \in Tanks |-> 0]
                   /\ shownCycle' = [i \in Tanks |-> 0]
                   /\ gate' = NoGate
                   /\ lastSave' = NoSave
    /\ UNCHANGED <<now, uiVars, cycle, events>>

\* The runs of the program one after the other on the same database file:
\* polling, shutdown, and the next startup.
RunsNext ==
    \/ PollStep
    \/ CloseRequest
    \/ CloseAnswer
    \/ ExitHook
    \/ HookAnswer
    \/ ProcessEnd
    \/ Interrupt
    \/ WindowLost
    \/ Startup

RunsSpec == Init /\ [][RunsNext]_vars

\* cleanup has been invoked once and waits in askstring for the exit code:
\* called for a close request (the main loop is running), or called by the
\* atexit hook after an interrupt.  events counts the events from here on.
GateInit ==
    /\ running = TRUE
    /\ cleaned_up = FALSE
    /\ last_update = None
    /\ tank_levels = [i \in Tanks |-> 0]
    /\ adam_ip = DefaultHost
    /\ poll_interval = DEFAULT_POLL_INTERVAL
    /\ clientOk \in BOOLEAN
    /\ client_host = adam_ip
    /\ sock = FALSE
    /\ sock_host = MissingHost
    /\ unit_id = DEFAULT_UNIT_ID
    /\ db = <<>>
    /\ rootAlive = TRUE
    /\ guiQueue = 0
    /\ shown = [i \in Tanks |-> 0]
    /\ shownStale = FALSE
    /\ now = 0
    /\ \/ proc = "mainloop" /\ hook = "armed" /\ prompts = 1
       \/ proc = "exiting" /\ hook = "prompting" /\ prompts = 0
    /\ config_file = RecordFile(default_config, TRUE)
    /\ pc = IF clientOk THEN "top" ELSE "nothread"
    /\ wi = 1
    /\ regs = <<>>
    /\ start_time = 0
    /\ last_poll_time = 0
    /\ uiPc = "idle"
    /\ gi = 1
    /\ cycle = 0
    /\ cyc = NoCycle
    /\ pre = Snapshot
    /\ levelCycle = [i \in Tanks |-> 0]
    /\ shownCycle = [i \in Tanks |-> 0]
    /\ gate = [NoGate EXCEPT !.calls = 1, !.asked = 1, !.last = "asked"]
    /\ events = 0
    /\ lastSave = NoSave

\* The polling thread and every step of the main thread that invokes or
\* answers cleanup, from a state in which one invocation is waiting.
GateNext ==
    \/ PollStep
    \/ CloseRequest
    \/ CloseAnswer
    \/ ExitHook
    \/ HookAnswer
    \/ ProcessEnd
    \/ Interrupt
    \/ WindowLost

GateSpec == GateInit /\ [][GateNext]_vars

\* The program has not been started; config.json is in any of its states.
BootInit ==
    /\ running = FALSE
    /\ cleaned_up = FALSE
    /\ last_update = None
    /\ tank_levels = [i \in Tanks |-> 0]
    /\ adam_ip = MissingHost
    /\ poll_interval = DEFAULT_POLL_INTERVAL
    /\ clientOk = FALSE
    /\ client_host = MissingHost
    /\ sock = FALSE
    /\ sock_host = MissingHost
    /\ unit_id = None
    /\ db = <<>>
    /\ rootAlive = FALSE
    /\ guiQueue = 0
    /\ shown = [i \in Tanks |-> 0]
    /\ shownStale = FALSE
    /\ now = 0
    /\ proc = "off"
    /\ hook = "armed"
    /\ prompts = 0
    /\ config_file \in ConfigFiles
    /\ pc = "nothread"
    /\ wi = 1
    /\ regs = <<>>
    /\ start_time = 0
    /\ last_poll_time = 0
    /\ uiPc = "idle"
    /\ gi = 1
    /\ cycle = 0
    /\ cyc = NoCycle
    /\ pre = Snapshot
    /\ levelCycle = [i \in Tanks |-> 0]
    /\ shownCycle = [i \in Tanks |-> 0]
    /\ gate = NoGate
    /\ events = 0
    /\ lastSave = NoSave

\* Startup on every state of config.json and the polling that follows it.
BootNext ==
    \/ Startup
    \/ CycleBegin
    \/ Ping
    \/ SleepUnreachable
    \/ FetchConnect
    \/ ReadOk
    \/ ReadError
    \/ ReadException
    \/ ReadShort
    \/ Store
    \/ PostTest
    \/ Post
    \/ SleepCycle

BootSpec == BootInit /\ [][BootNext]_vars

\* Every value a holding register can have.
RawValues == 0..REG_MAX

\* The first cycle at the point where read_holding_registers has returned
\* three registers, for every value the registers can hold (the same value
\* in all three, so that every value meets every capacity).
TransformInit ==
    /\ running = TRUE
    /\ cleaned_up = FALSE
    /\ last_update = None
    /\ tank_levels = [i \in Tanks |-> 0]
    /\ adam_ip = DefaultHost
    /\ poll_interval = DEFAULT_POLL_INTERVAL
    /\ clientOk = TRUE
    /\ client_host = DefaultHost
    /\ sock = TRUE
    /\ sock_host = DefaultHost
    /\ unit_id = DEFAULT_UNIT_ID
    /\ config_file = RecordFile(default_config, TRUE)
    /\ db = <<>>
    /\ rootAlive = TRUE
    /\ guiQueue = 0
    /\ shown = [i \in Tanks |-> 0]
    /\ shownStale = FALSE
    /\ now = MIN_POLL_INTERVAL
    /\ proc = "mainloop"
    /\ hook = "armed"
    /\ prompts = 0
    /\ pc = "write"
    /\ wi = 1
    /\ \E r \in RawValues : regs = <<r, r, r>>
    /\ start_time = 0
    /\ last_poll_time = 0
    /\ uiPc = "idle"
    /\ gi = 1
    /\ cycle = 1
    /\ cyc = [NoCycle EXCEPT !.pings = 1, !.pingHost = DefaultHost,
                             !.connects = 1, !.reads = 1]
    /\ pre = Snapshot
    /\ levelCycle = [i \in Tanks |-> 0]
    /\ shownCycle = [i \in Tanks |-> 0]
    /\ gate = NoGate
    /\ events = 0
    /\ lastSave = NoSave

\* The transform and the store of fetch_tank_levels applied to every
\* register value.
TransformSpec == TransformInit /\ [][Store]_vars

\* ------------------------------------------------------------ claims
\* The polling thread has ended: the loop was left, or the process is gone.
PollEnded == pc \in {"exited", "crashed", "killed", "nothread"}

FailedFetch == {"connect_failed", "read_error", "read_exception", "short_read"}

\* C1: in a cycle in which connect fails, the read reports an error, the
\* transport raises, or fewer than three registers come back, the six tank
\* levels, last_update and the rows of tank_readings stay what they were when
\* the cycle began.
C1_FailedCycleChangesNothing ==
    cyc.outcome \in FailedFetch =>
        /\ tank_levels = pre.levels
        /\ last_update = pre.last_update
        /\ db = pre.db

\* A short read in a cycle that follows a successful one has run to its end.
C1_Witness ==
    /\ cyc.outcome = "short_read"
    /\ pc = "top"
    /\ pre.last_update # None
    /\ Len(pre.db) = 1

C3_LoopUnkillable == pc # "crashed"

\* C4: initially and after every completed cycle Tank 3 equals Tank 2 and
\* Tank 4 and Tank 5 equal Tank 1.
C4_MirroredTanksEqual ==
    pc # "write" =>
        /\ tank_levels[4] = tank_levels[3]
        /\ tank_levels[5] = tank_levels[2]
        /\ tank_levels[6] = tank_levels[2]

\* Two successful cycles have run and the two source tanks differ.
C4_Witness ==
    /\ pc = "top"
    /\ cycle = 2
    /\ cyc.outcome = "ok"
    /\ pre.last_update # None
    /\ tank_levels[2] # tank_levels[3]
    /\ tank_levels # pre.levels

\* C5: each execution of update_gui shows six levels of one and the same
\* acquisition cycle.
C5_NoTornRead ==
    uiPc = "idle" => \A i, j \in Tanks : shownCycle[i] = shownCycle[j]

\* C6: once cleaned_up is set, a further call of cleanup (from either
\* trigger) changes nothing: no prompt, no close of the client, no destroy,
\* no write to the log.
C6_CleanupAfterCleanedIsNoop ==
    [][(cleaned_up /\ gate'.calls # gate.calls) =>
        /\ UNCHANGED <<running, cleaned_up, sock, rootAlive, prompts, db, guiQueue>>
        /\ hook' # "prompting"
        /\ gate'.asked = gate.asked
        /\ gate'.teardowns = gate.teardowns
        /\ gate'.closes = gate.closes
        /\ gate'.destroys = gate.destroys]_vars

\* cleanup has been called after it had reached Cleaned, and returned.
C6_Witness ==
    /\ cleaned_up
    /\ gate.last = "returned"
    /\ gate.calls = 2
    /\ gate.teardowns = 1

\* A prompt of cleanup is answered in this step.
AnswerStep == prompts' = prompts - 1 \/ (hook = "prompting" /\ hook' = "done")

\* C7: when the prompt is answered with anything but the exit code, cleanup
\* aborts: running, cleaned_up, the connection and the window stay as they
\* are and the polling thread goes on.
C7_WrongTokenAborts ==
    [][(AnswerStep /\ gate'.token # EXIT_CODE) =>
        /\ UNCHANGED <<running, cleaned_up, sock, rootAlive, pollVars, db>>
        /\ gate'.teardowns = gate.teardowns
        /\ gate'.closes = gate.closes
        /\ gate'.destroys = gate.destroys]_vars

\* A wrong exit code was given while the window existed and the connection
\* was open: the system is still running.
C7_Witness ==
    /\ gate.token = "00000"
    /\ gate.last = "aborted"
    /\ running /\ ~cleaned_up /\ rootAlive /\ sock

\* C8: cleanup called in state Running with the window gone proceeds without
\* a prompt: running is cleared, the connection is closed if it was open, the
\* state is Cleaned.
C8_WindowGoneProceeds ==
    [][(gate'.calls = gate.calls + 1 /\ ~cleaned_up /\ ~rootAlive) =>
        /\ running' = FALSE
        /\ cleaned_up' = TRUE
        /\ sock' = FALSE
        /\ gate'.closes = gate.closes + (IF sock THEN 1 ELSE 0)
        /\ gate'.asked = gate.asked
        /\ prompts' = prompts
        /\ hook' # "prompting"]_vars

\* The exit hook has torn down without a prompt and closed an open connection.
C8_Witness ==
    /\ cleaned_up /\ ~running /\ ~sock
    /\ gate.asked = 0
    /\ gate.teardowns = 1
    /\ gate.closes = 1
    /\ gate.destroys = 0

\* C9: once running is cleared it stays cleared, the loop begins no cycle
\* whose test finds it cleared, and the polling thread eventually ends.
C9_StopsAfterRunningCleared ==
    /\ [][~running => ~running']_vars
    /\ [][cycle' # cycle => running]_vars
    /\ (~running ~> PollEnded)

\* running was cleared during a cycle; the cycle ran to its end (its post
\* was skipped) and the loop test then ended the thread.
C9_Witness ==
    /\ ~running
    /\ pc = "exited"
    /\ cyc.outcome = "ok"
    /\ cyc.posts = 0
    /\ cyc.slept # None

\* C10: in a cycle whose probe returned false there is no connect, no read,
\* no row, no post, the levels are unchanged, and the next cycle can begin
\* only after a sleep of the poll interval configured at that sleep.
C10_UnreachableSkipsAndSleeps ==
    cyc.outcome = "unreachable" =>
        /\ cyc.connects = 0
        /\ cyc.reads = 0
        /\ cyc.appends = 0
        /\ cyc.posts = 0
        /\ tank_levels = pre.levels
        /\ last_update = pre.last_update
        /\ db = pre.db
        /\ pc \in {"sleep_unreachable", "except", "top", "exited", "crashed", "killed"}
        /\ pc \in {"top", "exited"} => (cyc.slept # None /\ cyc.slept = cyc.sleepCfg)

\* An unreachable cycle after a successful one has slept the default interval.
C10_Witness ==
    /\ cyc.outcome = "unreachable"
    /\ pc = "top"
    /\ cyc.slept = DEFAULT_POLL_INTERVAL
    /\ pre.last_update # None
    /\ guiQueue = 1

\* C11: a read that reports a protocol error over an open connection leaves
\* the connection open, and the cycle goes on to its post and its
\* end-of-cycle sleep; a cycle that finds the connection open issues its read
\* without a connect; only cleanup closes the connection.
C11_ReadErrorKeepsConnection ==
    /\ [][(pc = "read" /\ sock /\ cyc'.outcome = "read_error") =>
            (sock' /\ pc' = "post")]_vars
    /\ [][cyc'.connects > cyc.connects => (~sock /\ pc = "fetch")]_vars
    /\ [][(sock /\ ~sock') => gate'.closes = gate.closes + 1]_vars
    /\ [](cyc.outcome = "read_error" /\ pc = "top" =>
            (cyc.slept # None /\ cyc.slept = cyc.sleepCfg))

\* The second cycle found the connection open, read without a connect, got
\* an error response, and has slept: the connection is still open.
C11_Witness ==
    /\ cycle = 2
    /\ cyc.outcome = "read_error"
    /\ cyc.connects = 0
    /\ cyc.reads = 1
    /\ sock
    /\ pc = "top"
    /\ cyc.slept = DEFAULT_POLL_INTERVAL

\* update_gui takes its staleness decision in this step (it is the step that
\* takes a posted callback off the queue of a window that stays alive).
StaleEvaluated == guiQueue > 0 /\ guiQueue' = guiQueue - 1 /\ rootAlive'

\* C12: after any cycles, the staleness decision of update_gui is false when
\* it is taken right after a successful cycle (no older than the threshold),
\* and true when now - last_update exceeds the threshold.
C12_StaleIffOlderThanThreshold ==
    /\ [][(StaleEvaluated /\ last_update # None /\ now - last_update <= STALE_THRESHOLD)
            => ~shownStale']_vars
    /\ [][(StaleEvaluated /\ last_update # None /\ now - last_update > STALE_THRESHOLD)
            => shownStale']_vars

\* The first cycle succeeded and was rendered; the second failed a poll
\* interval later, and its update was rendered stale.
C12_Witness ==
    /\ cycle = 2
    /\ cyc.outcome \in FailedFetch
    /\ cyc.posts = 1
    /\ guiQueue = 0
    /\ shownCycle[1] = 1
    /\ last_update # None
    /\ now - last_update > STALE_THRESHOLD
    /\ shownStale

\* C13: as long as no cycle has succeeded (last_update is unset) every
\* staleness decision of update_gui reports stale, never fresh.
C13_NeverReadIsStale ==
    [][(StaleEvaluated /\ last_update = None) => shownStale']_vars

\* C14: in every reachable state the poll interval the loop uses is at least
\* MIN_POLL_INTERVAL.
C14_IntervalAtLeastFloor ==
    poll_interval # NaN /\ poll_interval >= MIN_POLL_INTERVAL

\* C15: a press of Save whose interval text is not a number for float(), or
\* is below MIN_POLL_INTERVAL, is answered with an error and leaves adam_ip,
\* poll_interval and the client's host as they were.
C15_RejectedSaveChangesNothing ==
    [][(lastSave'.n # lastSave.n /\
        (lastSave'.text = NotANumber \/ FloatLess(lastSave'.text, MIN_POLL_INTERVAL)))
       => /\ lastSave'.error
          /\ UNCHANGED <<adam_ip, poll_interval, client_host>>]_vars

\* Save was pressed with another host and an interval below the floor: the
\* error was shown and the configuration is the one of startup.
C15_Witness ==
    /\ lastSave.n = 1
    /\ lastSave.text = 0
    /\ lastSave.ip # DefaultHost
    /\ lastSave.error
    /\ adam_ip = DefaultHost
    /\ client_host = DefaultHost
    /\ poll_interval = DEFAULT_POLL_INTERVAL

\* C16: within one cycle the host of the probe and the interval of the
\* end-of-cycle sleep are those of the configuration that was active when the
\* cycle began.
C16_CycleUsesOneConfig ==
    /\ cyc.pings > 0 => cyc.pingHost = pre.adam_ip
    /\ cyc.slept # None => cyc.sleepCfg = pre.poll_interval

\* C17: when the INSERT of a successful cycle fails, the row is dropped and
\* nothing else is undone or diverted: the levels and last_update of the
\* cycle are applied, the loop goes on to post the update exactly as after a
\* stored row, and on to its end-of-cycle sleep.
C17_FailedInsertIsDropped ==
    /\ [][(pc = "write" /\ cyc'.outcome = "ok" /\ cyc'.appends = 0) =>
            /\ pc' = "post"
            /\ db' = db
            /\ tank_levels' = StoreLevels(regs)
            /\ last_update' = now]_vars
    /\ [](cyc.outcome = "ok" /\ cyc.appends = 0 =>
            /\ db = pre.db
            /\ tank_levels = StoreLevels(DeviceRegisters(cycle))
            /\ last_update # None /\ last_update >= start_time
            /\ (pc = "sleep" /\ running => cyc.posts = 1)
            /\ (pc = "top" => cyc.slept # None /\ cyc.slept = cyc.sleepCfg))

\* The INSERT of the first cycle failed: the log is empty, the levels are
\* applied, the update was posted and the loop has slept.
C17_Witness ==
    /\ cycle = 1
    /\ cyc.outcome = "ok"
    /\ cyc.appends = 0
    /\ db = <<>>
    /\ tank_levels[1] # 0
    /\ last_update # None
    /\ cyc.posts = 1
    /\ pc = "top"

\* Every row of tank_readings is still there, unchanged, after the step.
RowsKept == Len(db') >= Len(db) /\ SubSeq(db', 1, Len(db)) = db

\* C18 as stated: over startup, appends, shutdown and a later startup, a row
\* that was inserted is never updated or deleted.
C18_LogOnlyGrows == [][RowsKept]_vars

\* C18 as amended: while the program runs (shutdown included) the rows are
\* only appended to, one row by a successful cycle; a startup deletes the
\* database file with every row of the earlier runs, or, when the file
\* cannot be deleted, keeps all of them.
C18_LogGrowsWithinRun ==
    /\ [][proc # "ended" =>
            /\ RowsKept
            /\ Len(db') <= Len(db) + 1
            /\ (db' # db => (pc = "write" /\ cyc'.outcome = "ok"))]_vars
    /\ [][proc = "ended" => (db' = <<>> \/ db' = db)]_vars

\* The program was started again on a log that held a row: the log is empty.
C18_Witness ==
    /\ cyc.outcome = "startup"
    /\ Len(pre.db) = 1
    /\ db = <<>>
    /\ proc = "mainloop"

\* level (in hundredths) is r * c / 65535 rounded to the nearest hundredth:
\* 2 * |65535 * level - r * c| <= 65535, with r * c taken apart as
\* (r * cq + 2 * hq) * 65535 + rest so that no product leaves 32 bits.
IsNearestHundredth(level, r, c) ==
    LET cq == c \div REG_MAX
        cr == c % REG_MAX
        h  == (r \div 2) * cr
        hq == h \div REG_MAX
        rest == 2 * (h % REG_MAX) + (r % 2) * cr
        d  == level - (r * cq + 2 * hq)
    IN  /\ d \in 0..3
        /\ 2 * (d * REG_MAX - rest) <= REG_MAX
        /\ 2 * (rest - d * REG_MAX) <= REG_MAX

\* C19: for every register value r in 0..65535 and each of the three
\* measured tanks, the level the transform assigns is r / 65535 * capacity
\* rounded to two decimals, lies between 0 and the capacity, is 0 for r = 0
\* and the capacity for r = 65535.
C19_TransformIsScaledAndRounded ==
    [][(pc = "write" /\ pc' = "post") =>
        \A i \in 1..3 :
            /\ IsNearestHundredth(tank_levels'[i], regs[i], Capacity(i))
            /\ tank_levels'[i] >= 0
            /\ tank_levels'[i] <= Capacity(i)
            /\ (regs[i] = 0 => tank_levels'[i] = 0)
            /\ (regs[i] = REG_MAX => tank_levels'[i] = Capacity(i))]_vars

\* The transform has been applied to the largest register value.
C19_Witness ==
    /\ pc = "post"
    /\ cyc.outcome = "ok"
    /\ tank_levels[1] = CAP_BIG
    /\ tank_levels[2] = CAP_TANK1
    /\ tank_levels[3] = CAP_TANK2

\* The registers of the scenario of C20.
ScenarioRegisters == <<32768, 10000, 5000>>

\* x is about y: within a tenth of a gallon.
About(x, y) == x - y <= 10 /\ y - x <= 10

\* C20 as stated: a successful cycle that reads [32768, 10000, 5000] yields
\* about 291002.3, 3051.8 and 1332.7 gallons, mirrors Tank 2 into Tank 3 and
\* Tank 1 into Tank 4 and Tank 5, and appends exactly one row.
C20_ScenarioAsStated ==
    (cyc.outcome = "ok" /\ DeviceRegisters(cycle) = ScenarioRegisters) =>
        /\ About(tank_levels[1], 29100230)
        /\ About(tank_levels[2], 305180)
        /\ About(tank_levels[3], 133270)
        /\ tank_levels[4] = tank_levels[3]
        /\ tank_levels[5] = tank_levels[2]
        /\ tank_levels[6] = tank_levels[2]
        /\ Len(db) = Len(pre.db) + 1

\* C20 as amended: the cycle yields 291004.44, 3051.80 and 1333.54 gallons,
\* mirrors Tank 2 into Tank 3 and Tank 1 into Tank 4 and Tank 5, and appends
\* one row whose three values round to these levels, or no row when the
\* INSERT fails.
C20_ScenarioLevels ==
    (cyc.outcome = "ok" /\ DeviceRegisters(cycle) = ScenarioRegisters) =>
        /\ tank_levels = <<29100444, 305180, 133354, 133354, 305180, 305180>>
        /\ cyc.appends \in {0, 1}
        /\ Len(db) = Len(pre.db) + cyc.appends
        /\ SubSeq(db, 1, Len(pre.db)) = pre.db
        /\ cyc.appends = 1 =>
            LET row == db[Len(db)]
            IN  /\ Round2(row.big_tank_gallons) = tank_levels[1]
                /\ Round2(row.tank1_gallons) = tank_levels[2]
                /\ Round2(row.tank2_gallons) = tank_levels[3]

\* The first cycle read the registers of the scenario and stored its row.
C20_Witness ==
    /\ cycle = 1
    /\ cyc.outcome = "ok"
    /\ cyc.appends = 1
    /\ Len(db) = 1
    /\ tank_levels[1] = 29100444
    /\ pc = "top"

\* C21: when the client could not be constructed there is no polling thread
\* and no probe, connect or read; an accepted press of Save completes with
\* host and interval updated; a cleanup that proceeds reaches Cleaned.
C21_NoClientStillOperable ==
    ~clientOk =>
        /\ pc = "nothread"
        /\ cycle = 0
        /\ cyc.pings = 0 /\ cyc.connects = 0 /\ cyc.reads = 0
        /\ (gate.teardowns > 0 => cleaned_up /\ ~running)
        /\ (lastSave.n > 0 /\ SaveAccepts(lastSave.text) =>
                /\ adam_ip = lastSave.ip
                /\ poll_interval = lastSave.text
                /\ ~lastSave.raised)

\* C22: whatever state config.json is in (absent, unreadable, unwritable,
\* not valid JSON, a record lacking fields), startup is not fatal and leaves
\* the program with a host, a poll interval and a unit id.
C22_ConfigLoadNeverFatal ==
    cyc.outcome = "startup" =>
        /\ proc # "failed"
        /\ adam_ip \in Hosts
        /\ poll_interval = DEFAULT_POLL_INTERVAL
        /\ unit_id = DEFAULT_UNIT_ID

\* C23: cleanup does not close the connection between the moment the polling
\* thread has found or made it open and the end of that cycle's register
\* read: while the read is outstanding the connection is open.
C23_NoCloseDuringCycle == pc = "read" => sock

\* The main thread touches the client in this step: save assigns its host,
\* or cleanup queries and closes it.
UiTouchesClient == client_host' # client_host \/ gate'.closes # gate.closes

\* C24: no operation of the UI context (settings save, cleanup) reconfigures
\* or closes the client while the polling thread exists.
C24_ClientOnlyInPollingThread == [][UiTouchesClient => PollEnded]_vars

\* The ordering of C25 but for the state of the connection at the read:
\* one probe at most; a connect only after a successful probe and only on a
\* connection that is not open; one read at most, after the probe, and none
\* after a failed connect, which leaves the connection closed; an append only
\* in the step that follows a read of three registers; a post only after
\* fetch_tank_levels has returned.
CycleStepOrder ==
    /\ [](cyc.pings <= 1 /\ cyc.connects <= 1 /\ cyc.reads <= 1 /\ cyc.appends <= 1)
    /\ [](cyc.connects > 0 => cyc.pings = 1 /\ cyc.outcome # "unreachable")
    /\ [](cyc.reads > 0 => cyc.pings = 1 /\ cyc.outcome # "connect_failed")
    /\ [](cyc.outcome = "connect_failed" /\ pc \in {"post", "after"} /\ running => ~sock)
    /\ [](cyc.appends > 0 => cyc.reads = 1 /\ cyc.outcome = "ok")
    /\ [](cyc.posts > 0 => pc \in {"sleep", "top", "except", "exited", "crashed", "killed"})
    /\ [][cyc'.connects > cyc.connects => (pc = "fetch" /\ ~sock)]_vars
    /\ [][cyc'.reads > cyc.reads => pc = "read"]_vars
    /\ [][(pc = "fetch" /\ pc' = "read") => sock']_vars
    /\ [][db' # db => (pc = "write" /\ cyc.reads = 1)]_vars
    /\ [][cyc'.posts > cyc.posts => pc = "after"]_vars

\* C25: within every cycle the steps occur in the order probe, connect,
\* read, transform, persist, publish, and the one register read is issued
\* only with an open connection.
C25_CycleStepOrderOpenRead ==
    /\ CycleStepOrder
    /\ [][cyc'.reads > cyc.reads => sock]_vars

\* C26: whatever the outcome of a cycle (probe failure, connect failure,
\* read failure, success, overrun, exception), the next cycle begins only
\* after the loop has slept, and each sleep of the loop lasts the full
\* poll_interval of that moment, never a shortened one.
C26_FullSleepBeforeNextCycle ==
    /\ [][(cycle' # cycle /\ cycle > 0) =>
            (cyc.slept # None /\ cyc.slept = cyc.sleepCfg)]_vars
    /\ [][(cyc.slept = None /\ cyc'.slept # None) =>
            /\ pc \in {"sleep_unreachable", "sleep", "except"}
            /\ cyc'.slept = poll_interval
            /\ now' = now + poll_interval
            /\ pc' = "top"]_vars
    /\ [][(pc' = "top" /\ pc # "top") => (cyc.slept = None /\ cyc'.slept # None)]_vars

\* A cycle whose read timed out took longer than the interval of 0.1 s that
\* had been saved; the loop has then slept that interval in full.
C26_Witness ==
    /\ cyc.overrun
    /\ cyc.outcome = "read_exception"
    /\ cyc.slept = MIN_POLL_INTERVAL
    /\ poll_interval = MIN_POLL_INTERVAL
    /\ pc = "top"

\* C27: with the shipped threshold and poll interval, after a successful
\* cycle followed by exactly one failed cycle, the update that the failed
\* cycle posts does not yet show the stale indicator.
C27_OneMissedCycleTolerated ==
    (/\ cycle = 2
     /\ pre.last_update # None
     /\ cyc.outcome \in FailedFetch
     /\ cyc.posts = 1
     /\ guiQueue = 0
     /\ rootAlive
     /\ lastSave.n = 0
     /\ poll_interval = DEFAULT_POLL_INTERVAL) => ~shownStale

\* C28: when, after a successful cycle, a later cycle has failed at the probe
\* and has run to its end, the last update is older than the threshold and
\* no update is waiting to be rendered, the display shows the stale indicator
\* (it is not left showing the last levels as fresh).
C28_UnreachableShownStale ==
    (/\ cyc.outcome = "unreachable"
     /\ pc = "top"
     /\ last_update # None
     /\ now - last_update > STALE_THRESHOLD
     /\ guiQueue = 0
     /\ LoopServing) => shownStale

\* C29: after an accepted settings update config.json holds the new host and
\* the new poll interval, as the active configuration does.
C29_SaveRewritesConfigFile ==
    (lastSave.n > 0 /\ ~lastSave.error /\ ~lastSave.raised /\ lastSave.text # NaN) =>
        /\ config_file.kind = "record"
        /\ config_file.adam_ip = adam_ip
        /\ config_file.poll_interval = poll_interval

\* The row the current cycle has stored.
LastRow == db[Len(db)]

\* C30 as stated: the three values in the row of a successful cycle are equal
\* to the levels of Big Tank, Tank 1 and Tank 2 that the cycle assigned.
C30_RowEqualsLevels ==
    (cyc.outcome = "ok" /\ cyc.appends = 1) =>
        /\ LastRow.big_tank_gallons = <<tank_levels[1], 0>>
        /\ LastRow.tank1_gallons = <<tank_levels[2], 0>>
        /\ LastRow.tank2_gallons = <<tank_levels[3], 0>>

\* C30 as amended: the row holds the three levels before rounding; rounded to
\* two decimals they are the levels of Big Tank, Tank 1 and Tank 2 that the
\* cycle assigned, and the mirrored levels follow from them, so all six
\* readings are derivable from the row.
C30_RowRoundsToLevels ==
    (cyc.outcome = "ok" /\ cyc.appends = 1) =>
        /\ Round2(LastRow.big_tank_gallons) = tank_levels[1]
        /\ Round2(LastRow.tank1_gallons) = tank_levels[2]
        /\ Round2(LastRow.tank2_gallons) = tank_levels[3]
        /\ Round2(LastRow.tank2_gallons) = tank_levels[4]
        /\ Round2(LastRow.tank1_gallons) = tank_levels[5]
        /\ Round2(LastRow.tank1_gallons) = tank_levels[6]

\* A cycle has stored a row whose Big Tank value has more than two decimals
\* and is rounded up in the level.
C30_Witness ==
    /\ cyc.outcome = "ok"
    /\ cyc.appends = 1
    /\ pc = "post"
    /\ LastRow.big_tank_gallons[2] # 0
    /\ tank_levels[1] = LastRow.big_tank_gallons[1] + 1

\* C31: when the database cannot be set up at startup, startup still
\* completes: the window runs and, when the client was constructed, so does
\* the polling loop.
C31_DatabaseFailureNotFatal ==
    cyc.outcome = "startup_db_error" =>
        /\ proc = "mainloop"
        /\ rootAlive
        /\ running
        /\ (clientOk => pc = "top")

\* C32: once cleanup has reached Cleaned, the connection stays closed and
\* the polling thread does not connect, read or append a row any more,
\* whatever cycle was in flight when running was cleared.
C32_QuietAfterCleaned ==
    [][cleaned_up =>
        /\ ~sock'
        /\ db' = db
        /\ cyc'.connects <= cyc.connects
        /\ cyc'.reads <= cyc.reads]_vars

\* C33: when cleanup is invoked again while an earlier invocation waits for
\* the exit code, the teardown still runs at most once over the whole run,
\* whatever the invocations are answered: running is cleared, the connection
\* closed and the window destroyed by at most one invocation.
C33_TeardownAtMostOnce ==
    /\ gate.teardowns <= 1
    /\ gate.closes <= 1
    /\ gate.destroys <= 1
    /\ (gate.teardowns = 0 => running /\ ~cleaned_up)
    /\ (gate.teardowns = 1 => ~running /\ cleaned_up /\ ~rootAlive)

\* Two invocations waited at once; the later one was given the exit code,
\* tore down and closed the open connection; the earlier one then returned
\* without a teardown.
C33_Witness ==
    /\ gate.calls = 2
    /\ gate.asked = 2
    /\ gate.teardowns = 1
    /\ gate.closes = 1
    /\ gate.destroys = 1
    /\ gate.last = "aborted"
    /\ prompts = 0
    /\ hook # "prompting"

\* C34: after an accepted settings update that changes the host, a register
\* read of a cycle begun after the update goes to the new host, the host the
\* cycle probed: it is never exchanged with the previously configured host
\* (over a connection that was already open to it).
C34_ReadsNewHostAfterUpdate ==
    [][(/\ lastSave.n = 1
        /\ ~lastSave.error
        /\ ~lastSave.raised
        /\ lastSave.ip # DefaultHost
        /\ pre.adam_ip = lastSave.ip
        /\ cyc'.reads > cyc.reads) =>
            /\ cyc.pingHost = lastSave.ip
            /\ ReadPeer = lastSave.ip]_vars

====
